---- MODULE Spec2Model ----
(***************************************************************************)
(* csv-to-parquet: the batch scheduler (ConvertAll), the per-file          *)
(* orchestrator (convertFile), schema detection (detectSchema, inferType,  *)
(* widenType) and the streaming pass (writeParquet, recordToJSON).         *)
(***************************************************************************)
EXTENDS Integers, Sequences, FiniteSets, TLC

(* ------------------------------ bounds --------------------------------- *)

\* Largest number of files the input directory holds.
MaxFiles == 5

\* Largest number of data lines of an input file.
MaxRows == 3

\* Longest sequence of inferred types folded into one column's type.
MaxTypes == 3

(* -------------------------- program constants -------------------------- *)

\* fieldType: const ( typeString fieldType = iota; typeInt64; ... )
typeString == 0
typeInt64 == 1
typeFloat64 == 2
typeBool == 3

\* The types inferType can return and widenType combines (typeDate and
\* typeTimestamp are declared and never produced).
FieldTypes == {typeString, typeInt64, typeFloat64, typeBool}

\* widenType returns the wider of two types (string is widest).
widenTypeFloatAbsorbsBool(current, new) ==
    IF current = typeString \/ new = typeString THEN typeString
    ELSE IF current = typeFloat64 \/ new = typeFloat64 THEN typeFloat64
    ELSE IF current = typeBool /\ new = typeBool THEN typeBool
    ELSE IF (current = typeBool) # (new = typeBool) THEN typeString
    ELSE IF current = typeInt64 /\ new = typeInt64 THEN typeInt64
    ELSE typeString
widenTypeFromUnknown(current, new) ==
    IF current = typeInt64 THEN new
    ELSE IF current = typeString \/ new = typeString THEN typeString
    ELSE IF current = typeFloat64 \/ new = typeFloat64
         THEN IF current = typeBool \/ new = typeBool
              THEN typeString ELSE typeFloat64
    ELSE IF current = typeBool /\ new = typeBool THEN typeBool
    ELSE typeString
widenType(current, new) ==
    IF current = typeString \/ new = typeString THEN typeString
    ELSE IF current = typeFloat64 \/ new = typeFloat64
         THEN IF current = typeBool \/ new = typeBool
              THEN typeString
              ELSE typeFloat64
    ELSE IF current = typeBool /\ new = typeBool THEN typeBool
    ELSE IF (current = typeBool) # (new = typeBool) THEN typeString
    ELSE IF current = typeInt64 /\ new = typeInt64 THEN typeInt64
    ELSE typeString

\* The column update of detectSchema, types[i] = widenType(types[i], t),
\* applied to the inferred types ts in order, from the working type t0.
RECURSIVE FoldWiden(_, _)
FoldWiden(t0, ts) ==
    IF ts = <<>> THEN t0
    ELSE FoldWiden(widenType(t0, Head(ts)), Tail(ts))

\* sem := make(chan struct{}, 4)
SemCapBroken == 4 + 1
SemCap == 4

(* ------------------------------ strings -------------------------------- *)
\* A string is a sequence of characters; a cell of a CSV record is a string.

Str0 == <<>>

IsSpace(ch) == ch \in {" ", "\t"}

IsDigit(ch) == ch \in {"0", "1", "2", "3", "4", "5", "6", "7", "8", "9"}

DigitValue(ch) ==
    CASE ch = "0" -> 0 [] ch = "1" -> 1 [] ch = "2" -> 2 [] ch = "3" -> 3
      [] ch = "4" -> 4 [] ch = "5" -> 5 [] ch = "6" -> 6 [] ch = "7" -> 7
      [] ch = "8" -> 8 [] OTHER -> 9

DigitChar(d) == <<"0", "1", "2", "3", "4", "5", "6", "7", "8", "9">>[d + 1]

\* strings.TrimSpace
RECURSIVE TrimLeft(_)
TrimLeft(s) ==
    IF s # <<>> /\ IsSpace(Head(s)) THEN TrimLeft(Tail(s)) ELSE s

RECURSIVE TrimRight(_)
TrimRight(s) ==
    IF s # <<>> /\ IsSpace(s[Len(s)])
    THEN TrimRight(SubSeq(s, 1, Len(s) - 1))
    ELSE s

TrimSpace(s) == TrimRight(TrimLeft(s))

\* strings.ToLower, on the letters the cells are written with.
LowerChar(ch) ==
    CASE ch = "T" -> "t" [] ch = "R" -> "r" [] ch = "U" -> "u"
      [] ch = "E" -> "e" [] ch = "F" -> "f" [] ch = "A" -> "a"
      [] ch = "L" -> "l" [] ch = "S" -> "s" [] ch = "N" -> "n"
      [] ch = "I" -> "i" [] ch = "X" -> "x" [] OTHER -> ch

ToLower(s) == [i \in 1..Len(s) |-> LowerChar(s[i])]

\* strings.ReplaceAll(s, old, new) for a one-character old.
ReplaceAll(s, old, new) == [i \in 1..Len(s) |-> IF s[i] = old THEN new ELSE s[i]]

AllDigits(s) == s # <<>> /\ \A i \in 1..Len(s) : IsDigit(s[i])

Unsigned(s) ==
    IF s # <<>> /\ Head(s) \in {"+", "-"} THEN Tail(s) ELSE s

\* strconv.ParseInt(val, 10, 64) succeeds: an optional sign and digits (the
\* cells here are far shorter than the 19 digits that overflow int64).
ParseIntOk(s) == AllDigits(Unsigned(s))

RECURSIVE DigitsValue(_)
DigitsValue(s) ==
    IF s = <<>> THEN 0
    ELSE 10 * DigitsValue(SubSeq(s, 1, Len(s) - 1)) + DigitValue(s[Len(s)])

\* The int64 strconv.ParseInt returns.
ParseIntValue(s) ==
    IF s # <<>> /\ Head(s) = "-"
    THEN 0 - DigitsValue(Unsigned(s))
    ELSE DigitsValue(Unsigned(s))

\* Where the first character of the set cs is in s (0: nowhere).
IndexAny(s, cs) ==
    IF \E i \in 1..Len(s) : s[i] \in cs
    THEN CHOOSE i \in 1..Len(s) :
            s[i] \in cs /\ \A j \in 1..(i - 1) : s[j] \notin cs
    ELSE 0

\* A decimal mantissa: digits with at most one point and at least one digit.
MantissaOk(m) ==
    LET p == IndexAny(m, {"."})
        whole == IF p = 0 THEN m ELSE SubSeq(m, 1, p - 1)
        frac  == IF p = 0 THEN <<>> ELSE SubSeq(m, p + 1, Len(m))
    IN  /\ whole \o frac # <<>>
        /\ \A i \in 1..Len(whole) : IsDigit(whole[i])
        /\ \A i \in 1..Len(frac) : IsDigit(frac[i])

\* strconv.ParseFloat(val, 64) succeeds: a signed decimal with an optional
\* exponent, or inf, infinity, nan in any case.
ParseFloatOk(s) ==
    LET u == Unsigned(s)
        e == IndexAny(u, {"e", "E"})
        mant == IF e = 0 THEN u ELSE SubSeq(u, 1, e - 1)
        expo == IF e = 0 THEN <<>> ELSE SubSeq(u, e + 1, Len(u))
    IN  \/ ToLower(u) \in {<<"i", "n", "f">>,
                           <<"i", "n", "f", "i", "n", "i", "t", "y">>}
        \/ ToLower(s) = <<"n", "a", "n">>
        \/ /\ MantissaOk(mant)
           /\ e # 0 => AllDigits(Unsigned(expo))

\* time.Parse(layout, val) succeeds, for the layout 2006-01-02: four digits,
\* a month 01..12 and a day 01..31 between dashes.
DateOk(s) ==
    /\ Len(s) = 10
    /\ s[5] = "-" /\ s[8] = "-"
    /\ AllDigits(SubSeq(s, 1, 4))
    /\ AllDigits(SubSeq(s, 6, 7)) /\ DigitsValue(SubSeq(s, 6, 7)) \in 1..12
    /\ AllDigits(SubSeq(s, 9, 10)) /\ DigitsValue(SubSeq(s, 9, 10)) \in 1..31

\* inferType: bool literal, else int, else float, else (a date or not) string.
inferType(v) ==
    LET val == TrimSpace(v)
        lower == ToLower(val)
    IN  IF val = <<>> THEN typeString
        ELSE IF lower = <<"t", "r", "u", "e">> \/ lower = <<"f", "a", "l", "s", "e">>
             THEN typeBool
        ELSE IF ParseIntOk(val) THEN typeInt64
        ELSE IF ParseFloatOk(val) THEN typeFloat64
        ELSE IF DateOk(val) THEN typeString
        ELSE typeString

\* fieldType.parquetTag
parquetTag(t) ==
    CASE t = typeInt64   -> "type=INT64"
      [] t = typeFloat64 -> "type=DOUBLE"
      [] t = typeBool    -> "type=BOOLEAN"
      [] OTHER           -> "type=BYTE_ARRAY, convertedtype=UTF8"

(* ----------------------------- csv.Reader ------------------------------ *)
\* An input file is a sequence of lines, a line the sequence of its cells.
\* The line of one empty cell is the blank line.

BlankLine == <<Str0>>

\* encoding/csv Reader.Read with FieldsPerRecord left 0: blank lines are
\* skipped; the first record sets the expected field count fpr; a later
\* record of another length comes with ErrFieldCount; the end is io.EOF.
RECURSIVE csvRead(_, _, _)
csvRead(lines, pos, fpr) ==
    IF pos > Len(lines)
    THEN [kind |-> "eof", record |-> <<>>, pos |-> pos, fpr |-> fpr]
    ELSE IF lines[pos] = BlankLine
    THEN csvRead(lines, pos + 1, fpr)
    ELSE IF fpr = 0
    THEN [kind |-> "rec", record |-> lines[pos], pos |-> pos + 1,
          fpr |-> Len(lines[pos])]
    ELSE IF Len(lines[pos]) # fpr
    THEN [kind |-> "err", record |-> lines[pos], pos |-> pos + 1, fpr |-> fpr]
    ELSE [kind |-> "rec", record |-> lines[pos], pos |-> pos + 1, fpr |-> fpr]

(* ---------------------------- recordToJSON ----------------------------- *)

\* The digits of m without trailing zeros, and how many were dropped.
RECURSIVE StripZeros(_, _)
StripZeros(m, e) ==
    IF m # 0 /\ m % 10 = 0 THEN StripZeros(m \div 10, e + 1) ELSE <<m, e>>

\* The float64 strconv.ParseFloat returns, as sign, mantissa and decimal
\* exponent with no trailing zero in the mantissa (what %g prints), or the
\* special value named.
ParseFloatValue(s) ==
    LET u == Unsigned(s)
        neg == s # <<>> /\ Head(s) = "-"
        ePos == IndexAny(u, {"e", "E"})
        mant == IF ePos = 0 THEN u ELSE SubSeq(u, 1, ePos - 1)
        expo == IF ePos = 0 THEN <<>> ELSE SubSeq(u, ePos + 1, Len(u))
        p == IndexAny(mant, {"."})
        whole == IF p = 0 THEN mant ELSE SubSeq(mant, 1, p - 1)
        frac  == IF p = 0 THEN <<>> ELSE SubSeq(mant, p + 1, Len(mant))
        ex == IF expo = <<>> THEN 0 ELSE ParseIntValue(expo)
        n == StripZeros(DigitsValue(whole \o frac), ex - Len(frac))
    IN  IF ToLower(s) = <<"n", "a", "n">> THEN [special |-> "NaN"]
        ELSE IF ~MantissaOk(mant)
             THEN [special |-> IF neg THEN "-Inf" ELSE "+Inf"]
        ELSE [neg |-> neg /\ n[1] # 0, m |-> n[1],
              e |-> IF n[1] = 0 THEN 0 ELSE n[2]]

\* Lines 406-407: escape backslash and double quote.
RECURSIVE escapeJSON(_)
escapeJSON(s) ==
    IF s = <<>> THEN <<>>
    ELSE (IF Head(s) \in {"\\", "\""} THEN <<"\\", Head(s)>> ELSE <<Head(s)>>)
            \o escapeJSON(Tail(s))

\* The field recordToJSON writes for column i, as a one-element sequence, or
\* the empty sequence when it writes none.
encodeFieldWithNulls(record, headers, types, i) ==
    LET val == IF i <= Len(record) THEN TrimSpace(record[i]) ELSE Str0
    IN  IF val = Str0
        THEN <<[name |-> headers[i], kind |-> "null", value |-> Str0]>>
        ELSE <<[name |-> headers[i], kind |-> "string",
                value |-> escapeJSON(val)]>>
encodeField(record, headers, types, i) ==
    LET val == IF i <= Len(record) THEN TrimSpace(record[i]) ELSE Str0
    IN  IF val = Str0 THEN <<>>
        ELSE IF types[i] = typeInt64
        THEN IF ParseIntOk(val)
             THEN <<[name |-> headers[i], kind |-> "int",
                     value |-> ParseIntValue(val)]>>
             ELSE <<>>
        ELSE IF types[i] = typeFloat64
        THEN IF ParseFloatOk(val)
             THEN <<[name |-> headers[i], kind |-> "float",
                     value |-> ParseFloatValue(val)]>>
             ELSE <<>>
        ELSE IF types[i] = typeBool
        THEN <<[name |-> headers[i], kind |-> "bool", value |-> ToLower(val)]>>
        ELSE <<[name |-> headers[i], kind |-> "string",
                value |-> escapeJSON(val)]>>

\* recordToJSON: the fields of the row in header order, empty, missing and
\* unparsable ones left out.
RECURSIVE encodeFrom(_, _, _, _)
encodeFrom(record, headers, types, i) ==
    IF i > Len(headers) THEN <<>>
    ELSE encodeField(record, headers, types, i)
            \o encodeFrom(record, headers, types, i + 1)

recordToJSON(record, headers, types) == encodeFrom(record, headers, types, 1)

(* ---------------------------- detectSchema ----------------------------- *)

\* Lines 202-211: strip the BOM, trim, replace space and dot by underscore,
\* name an empty header by its zero-based position.
cleanHeader(h, i) ==
    LET h1 == IF h # <<>> /\ Head(h) = "BOM" THEN Tail(h) ELSE h
        h2 == TrimSpace(h1)
        h3 == ReplaceAll(h2, " ", "_")
        h4 == ReplaceAll(h3, ".", "_")
    IN  IF h4 = <<>> THEN <<"column_", DigitChar(i)>> ELSE h4

\* Lines 227-235: one sampled record widens the working types.
sampleRecordLastWins(types, record) ==
    [i \in 1..Len(types) |->
        IF i <= Len(record) /\ record[i] # Str0
        THEN inferType(record[i])
        ELSE types[i]]
sampleRecord(types, record) ==
    [i \in 1..Len(types) |->
        IF i <= Len(record) /\ record[i] # Str0
        THEN widenType(types[i], inferType(record[i]))
        ELSE types[i]]

(* ------------------------------- paths --------------------------------- *)

Bases == <<"a", "b", "c", "d", "e", "f", "g">>

CsvFile(k) == [dir |-> "in", base |-> Bases[k], ext |-> "csv"]

NoPath == [dir |-> "", base |-> "", ext |-> ""]

\* config.Config, the fields the converter reads.
Configs == [DeleteOriginal : BOOLEAN, OutputDir : {"", "out"}]

\* outputPath: the input's base name without its extension, in the input's
\* directory or in cfg.OutputDir, with the extension .parquet.
outputPathOneName(inputFile, c) ==
    [dir  |-> IF c.OutputDir # "" THEN c.OutputDir ELSE inputFile.dir,
     base |-> "output",
     ext  |-> "parquet"]
outputPath(inputFile, c) ==
    [dir  |-> IF c.OutputDir # "" THEN c.OutputDir ELSE inputFile.dir,
     base |-> inputFile.base,
     ext  |-> "parquet"]

(* ------------------------------ Result --------------------------------- *)

\* The zero value of Result (what make([]Result, n) holds).
ZeroResult ==
    [InputFile |-> NoPath, OutputFile |-> NoPath,
     InputSize |-> 0, OutputSize |-> 0, Err |-> "nil"]

(* --------------------- convertFile, step by step ----------------------- *)
\* The orchestrator's state for one file: where convertFile is, the Result it
\* is building, and the file system as far as this file is concerned.

OrchStart(file) ==
    [pc |-> "StatInput", file |-> file, res |-> ZeroResult,
     srcExists |-> TRUE, outExists |-> FALSE, outSize |-> 0,
     dirMade |-> FALSE, removeTried |-> FALSE, cleanup |-> "none"]

\* os.Stat(inputFile); on error return Result{InputFile, Err}.
OStat(o, c, ok, size) ==
    IF ~ok
    THEN [o EXCEPT !.pc = "Done",
                   !.res = [ZeroResult EXCEPT !.InputFile = o.file, !.Err = "stat"]]
    ELSE [o EXCEPT !.pc = "DetectSchema",
                   !.res = [ZeroResult EXCEPT !.InputFile = o.file,
                                              !.OutputFile = outputPath(o.file, c),
                                              !.InputSize = size]]

\* detectSchema returned; on error res.Err = "detecting schema".
ODetectGoesOn(o, c, ok) ==
    IF ~ok
    THEN [o EXCEPT !.pc = "PrepareOutput", !.res.Err = "detecting schema"]
    ELSE [o EXCEPT !.pc = "PrepareOutput"]
ODetect(o, c, ok) ==
    IF ~ok
    THEN [o EXCEPT !.pc = "Done", !.res.Err = "detecting schema"]
    ELSE [o EXCEPT !.pc = "PrepareOutput"]

\* if cfg.OutputDir != "" { os.MkdirAll(...) }
OMkdir(o, c, ok) ==
    IF c.OutputDir = ""
    THEN [o EXCEPT !.pc = "Write"]
    ELSE IF ~ok
         THEN [o EXCEPT !.pc = "Done", !.res.Err = "creating output dir"]
         ELSE [o EXCEPT !.pc = "Write", !.dirMade = TRUE]

\* writeParquet returned: on error os.Remove(outFile) is called and what it
\* returns is dropped; removed tells whether it removes a file that is there.
\* written is the size of the output file writeParquet left (-1: no file).
OWriteKeepsPartial(o, c, ok, written, removed) ==
    IF ~ok
    THEN [o EXCEPT !.pc = "Done", !.res.Err = "writing parquet"]
    ELSE [o EXCEPT !.pc = "Verify",
                   !.outExists = (written >= 0),
                   !.outSize = IF written >= 0 THEN written ELSE 0]
OWrite(o, c, ok, written, removed) ==
    IF ~ok
    THEN [o EXCEPT !.pc = "Done", !.res.Err = "writing parquet",
                   !.cleanup = IF o.outExists /\ removed
                               THEN "removed" ELSE "failed",
                   !.outExists = o.outExists /\ ~removed,
                   !.outSize = IF o.outExists /\ ~removed THEN o.outSize ELSE 0]
    ELSE [o EXCEPT !.pc = "Verify",
                   !.outExists = (written >= 0),
                   !.outSize = IF written >= 0 THEN written ELSE 0]

\* os.Stat(outFile): err != nil || Size() == 0 fails the file.
OVerifyLax(o, c) ==
    [o EXCEPT !.pc = IF c.DeleteOriginal THEN "Delete" ELSE "Done",
              !.res.OutputSize = o.outSize]
OVerifyMissingOnly(o, c) ==
    IF ~o.outExists
    THEN [o EXCEPT !.pc = "Done", !.res.Err = "output verification failed"]
    ELSE [o EXCEPT !.pc = IF c.DeleteOriginal THEN "Delete" ELSE "Done",
                   !.res.OutputSize = o.outSize]
OVerify(o, c) ==
    IF ~o.outExists \/ o.outSize = 0
    THEN [o EXCEPT !.pc = "Done", !.res.Err = "output verification failed"]
    ELSE [o EXCEPT !.pc = IF c.DeleteOriginal THEN "Delete" ELSE "Done",
                   !.res.OutputSize = o.outSize]

\* if cfg.DeleteOriginal { os.Remove(inputFile) }: a failure is only logged.
ODeleteFlipsResult(o, c, ok) ==
    IF ok
    THEN [o EXCEPT !.pc = "Done", !.removeTried = TRUE, !.srcExists = FALSE]
    ELSE [o EXCEPT !.pc = "Done", !.removeTried = TRUE, !.res.Err = "remove"]
ODelete(o, c, ok) ==
    IF ok
    THEN [o EXCEPT !.pc = "Done", !.removeTried = TRUE, !.srcExists = FALSE]
    ELSE [o EXCEPT !.pc = "Done", !.removeTried = TRUE]

\* What the world answers to one run of convertFile on a file whose
\* detection and streaming passes are not looked into.
Envs ==
    [stat : BOOLEAN, detect : BOOLEAN, mkdir : BOOLEAN, write : BOOLEAN,
     written : {-1, 0, 1}, remove : BOOLEAN]

AllOk ==
    [stat |-> TRUE, detect |-> TRUE, mkdir |-> TRUE, write |-> TRUE,
     written |-> 1, remove |-> TRUE]

\* The one way each file of the input directory can fail in a batch run: the
\* file may have vanished (stat), have no readable header (detect), sit under
\* an output directory that cannot be made (mkdir), fail to finalize (write),
\* come out empty (verify) or resist removal (remove).
DefectOf(file) ==
    CASE file.base = "a" -> [AllOk EXCEPT !.write = FALSE]
      [] file.base = "b" -> [AllOk EXCEPT !.stat = FALSE]
      [] file.base = "c" -> [AllOk EXCEPT !.written = 0]
      [] file.base = "d" -> [AllOk EXCEPT !.detect = FALSE]
      [] file.base = "e" -> [AllOk EXCEPT !.mkdir = FALSE]
      [] file.base = "f" -> [AllOk EXCEPT !.remove = FALSE]
      [] OTHER           -> [AllOk EXCEPT !.written = -1]

\* The answers one file's conversion can get in a batch run: every step
\* succeeds, or, for a file of the set fl, the file's defect shows.
BatchEnvs(file, fl) ==
    IF file.base \in fl THEN {AllOk, DefectOf(file)} ELSE {AllOk}

\* convertFile(file, cfg, log) run to its return under the answers e: the
\* steps in the order of lines 119-182, each return ending the run.
convertFile(file, c, e) ==
    LET s1 == OStat(OrchStart(file), c, e.stat, 1)
        s2 == ODetect(s1, c, e.detect)
        s3 == OMkdir(s2, c, e.mkdir)
        s4 == OWrite(s3, c, e.write, e.written, e.remove)
        s5 == OVerify(s4, c)
        s6 == ODelete(s5, c, e.remove)
    IN  IF s1.pc = "Done" THEN s1
        ELSE IF s2.pc = "Done" THEN s2
        ELSE IF s3.pc = "Done" THEN s3
        ELSE IF s4.pc = "Done" THEN s4
        ELSE IF s5.pc = "Done" THEN s5
        ELSE s6

(* ------------------------------ state ---------------------------------- *)

VARIABLES
    cfg,        \* the configuration of the run
    inputKind,  \* what cfg.InputPath is: "missing", "file", "dir", "globerr"
    dirCount,   \* how many *.csv files the directory holds
    mainPc,     \* ConvertAll: "start", "loop", "wait", "returned"
    files,      \* the resolved file list
    loopIdx,    \* the range loop's i (1-based: the next file to launch)
    results,    \* results := make([]Result, len(files))
    ret,        \* what ConvertAll returned
    warned,     \* log.Warn("No CSV files found") was emitted
    wg,         \* the WaitGroup's counter
    sem,        \* number of tokens in the sem channel
    task,       \* per launched goroutine: its pc, its arguments idx, file,
                \* and h, the file handles it holds open
    flaky,      \* base names of the files whose conversion can fail
    summary,    \* main: its counts and exit code once it has summed up
    start,      \* the working type one column's fold began with
    acc,        \* one column's working type (types[i] in detectSchema)
    pending,    \* the inferred types still to be folded into acc
    seen,       \* the inferred types folded into acc so far, in order
    csv,        \* the lines of the one input file convertFile works on
    sampleRows, \* cfg.SampleRows
    o,          \* convertFile's state for that file
    det,        \* detectSchema's state: reader, loop counter, headers, types
    wp          \* writeParquet's state: handles, reader, rows forwarded

batchVars == <<cfg, inputKind, dirCount, mainPc, files, loopIdx, results, ret,
               warned, wg, sem, task, flaky, summary>>

foldVars == <<start, acc, pending, seen>>

fileVars == <<csv, sampleRows, o, det, wp>>

vars == <<batchVars, foldVars, fileVars>>

\* What ConvertAll never touches.
env == <<cfg, inputKind, dirCount, flaky, summary>>

Tasks == 1..Len(files)

(* ------------------------------ ConvertAll ----------------------------- *)

AllBases == {Bases[k] : k \in DOMAIN Bases} \cup {"in"}

\* No column is being folded.
FoldIdle ==
    start = typeInt64 /\ acc = typeInt64 /\ pending = <<>> /\ seen = <<>>

\* detectSchema before its call.
DetIdle ==
    [pc |-> "idle", open |-> FALSE, pos |-> 1, fpr |-> 0, row |-> 0,
     headers |-> <<>>, types |-> <<>>, sampled |-> <<>>, err |-> "nil"]

\* writeParquet before its call.
WpIdle ==
    [pc |-> "idle", fwOpen |-> FALSE, pwLive |-> FALSE, stops |-> 0,
     fOpen |-> FALSE, pos |-> 1, fpr |-> 0, rowCount |-> 0,
     forwarded |-> <<>>, err |-> "nil"]

\* No file is being converted step by step.
FileIdle ==
    /\ csv = <<>>
    /\ sampleRows = 0
    /\ o = [OrchStart(NoPath) EXCEPT !.pc = "off"]
    /\ det = DetIdle
    /\ wp = WpIdle

\* main before its summary.
NoSummary == [converted |-> 0, failed |-> 0, exit |-> -1]

BatchStart ==
    /\ FoldIdle
    /\ FileIdle
    /\ summary = NoSummary
    /\ mainPc = "start"
    /\ files = <<>>
    /\ loopIdx = 1
    /\ results = <<>>
    /\ ret = <<>>
    /\ warned = FALSE
    /\ wg = 0
    /\ sem = 0
    /\ task = <<>>

\* Any configuration, any kind of input path, any file may fail.
BatchInit ==
    /\ cfg \in Configs
    /\ inputKind \in {"missing", "file", "dir", "globerr"}
    /\ dirCount \in 0..MaxFiles
    /\ (inputKind # "dir" => dirCount = 0)
    /\ flaky = AllBases
    /\ BatchStart

\* The same under config.Load's defaults (delete_original: true, no output
\* directory).
FairInit ==
    /\ cfg = [DeleteOriginal |-> TRUE, OutputDir |-> ""]
    /\ inputKind \in {"missing", "file", "dir", "globerr"}
    /\ dirCount \in 0..MaxFiles
    /\ (inputKind # "dir" => dirCount = 0)
    /\ flaky = AllBases
    /\ BatchStart

InputPath == [dir |-> "", base |-> "in", ext |-> ""]

\* Lines 84-87: what ConvertAll returns when no file was found: nil.
NoFilesIsAFailure == <<[ZeroResult EXCEPT !.InputFile = InputPath, !.Err = "no files"]>>
NoFiles == <<>>

\* Lines 68-89: stat the input path, resolve the file list, allocate results.
Resolve ==
    /\ mainPc = "start"
    /\ IF inputKind = "missing"
       THEN /\ ret' = <<[ZeroResult EXCEPT !.InputFile = InputPath, !.Err = "stat input"]>>
            /\ mainPc' = "returned"
            /\ UNCHANGED <<files, results, warned, task>>
       ELSE IF inputKind = "globerr"
       THEN /\ ret' = <<[ZeroResult EXCEPT !.InputFile = InputPath, !.Err = "glob"]>>
            /\ mainPc' = "returned"
            /\ UNCHANGED <<files, results, warned, task>>
       ELSE LET fs == IF inputKind = "dir"
                      THEN [k \in 1..dirCount |-> CsvFile(k)]
                      ELSE <<[dir |-> "", base |-> "in", ext |-> "csv"]>>
            IN  IF Len(fs) = 0
                THEN /\ warned' = TRUE
                     /\ ret' = NoFiles
                     /\ mainPc' = "returned"
                     /\ UNCHANGED <<files, results, task>>
                ELSE /\ files' = fs
                     /\ results' = [k \in 1..Len(fs) |-> ZeroResult]
                     /\ task' = [k \in 1..Len(fs) |->
                                   [pc |-> "idle", idx |-> 0, file |-> NoPath, h |-> {}]]
                     /\ mainPc' = "loop"
                     /\ UNCHANGED <<ret, warned>>
    /\ UNCHANGED <<fileVars, foldVars, env, loopIdx, wg, sem>>

\* Lines 93-101, one iteration: wg.Add(1); go func(idx, file){...}(i, f).
Launch ==
    /\ mainPc = "loop"
    /\ loopIdx <= Len(files)
    /\ wg' = wg + 1
    /\ task' = [task EXCEPT ![loopIdx] =
                  [pc |-> "gate", idx |-> loopIdx, file |-> files[loopIdx],
                   h |-> {}]]
    /\ loopIdx' = loopIdx + 1
    /\ UNCHANGED <<fileVars, foldVars, env, mainPc, files, results, ret,
                   warned, sem>>

\* The range loop ends.
LoopEnd ==
    /\ mainPc = "loop"
    /\ loopIdx > Len(files)
    /\ mainPc' = "wait"
    /\ UNCHANGED <<fileVars, foldVars, env, files, loopIdx, results, ret,
                   warned, wg, sem, task>>

\* Lines 103-104: wg.Wait(); return results.
WaitReturn ==
    /\ mainPc = "wait"
    /\ wg = 0
    /\ ret' = results
    /\ mainPc' = "returned"
    /\ UNCHANGED <<fileVars, foldVars, env, files, loopIdx, results,
                   warned, wg, sem, task>>

\* Line 97: sem <- struct{}{} blocks while the channel is full.
Acquire(t) ==
    /\ task[t].pc = "gate"
    /\ sem < SemCap
    /\ sem' = sem + 1
    /\ task' = [task EXCEPT ![t].pc = "conv"]
    /\ UNCHANGED <<fileVars, foldVars, env, mainPc, files, loopIdx, results,
                   ret, warned, wg>>

\* The slot a task stores into: its own argument idx.
SlotOfLoopVar(t) == IF loopIdx <= Len(files) THEN loopIdx ELSE Len(files)
SlotOf(t) == task[t].idx

\* Line 99: results[idx] = convertFile(file, cfg, log).
ConvertFile(t) ==
    /\ task[t].pc = "conv"
    /\ \E e \in BatchEnvs(task[t].file, flaky) :
          results' = [results EXCEPT ![SlotOf(t)] =
                         convertFile(task[t].file, cfg, e).res]
    /\ task' = [task EXCEPT ![t].pc = "stored"]
    /\ UNCHANGED <<fileVars, foldVars, env, mainPc, files, loopIdx, ret,
                   warned, wg, sem>>

\* Line 98, deferred: <-sem.
ReleaseLeaky(t) ==
    /\ task[t].pc = "stored"
    /\ task' = [task EXCEPT ![t].pc = "released"]
    /\ UNCHANGED <<fileVars, foldVars, env, mainPc, files, loopIdx, results,
                   ret, warned, wg, sem>>
ReleaseOnSuccessOnly(t) ==
    /\ task[t].pc = "stored"
    /\ sem' = IF results[task[t].idx].Err = "nil" THEN sem - 1 ELSE sem
    /\ task' = [task EXCEPT ![t].pc = "released"]
    /\ UNCHANGED <<fileVars, foldVars, env, mainPc, files, loopIdx, results,
                   ret, warned, wg>>
Release(t) ==
    /\ task[t].pc = "stored"
    /\ sem' = sem - 1
    /\ task' = [task EXCEPT ![t].pc = "released"]
    /\ UNCHANGED <<fileVars, foldVars, env, mainPc, files, loopIdx, results,
                   ret, warned, wg>>

\* Line 96, deferred: wg.Done().
Done(t) ==
    /\ task[t].pc = "released"
    /\ wg' = wg - 1
    /\ task' = [task EXCEPT ![t].pc = "done"]
    /\ UNCHANGED <<fileVars, foldVars, env, mainPc, files, loopIdx, results,
                   ret, warned, sem>>

\* main, lines 456-467: converted and failed over the results.
failed(rs) == Cardinality({k \in DOMAIN rs : rs[k].Err # "nil"})
converted(rs) == Cardinality({k \in DOMAIN rs : rs[k].Err = "nil"})

\* main, lines 453-480: sum up what ConvertAll returned; os.Exit(1) if any
\* file failed, else the normal exit.
Summarize ==
    /\ mainPc = "returned"
    /\ summary = NoSummary
    /\ summary' = [converted |-> converted(ret), failed |-> failed(ret),
                   exit |-> IF failed(ret) > 0 THEN 1 ELSE 0]
    /\ UNCHANGED <<fileVars, foldVars, cfg, inputKind, dirCount, flaky,
                   mainPc, files, loopIdx, results, ret, warned, wg, sem, task>>

MainStep == Resolve \/ Launch \/ LoopEnd \/ WaitReturn \/ Summarize

TaskStep(t) ==
    /\ t \in DOMAIN task
    /\ (Acquire(t) \/ ConvertFile(t) \/ Release(t) \/ Done(t))

Init == BatchInit

Next ==
    \/ Resolve
    \/ Launch
    \/ LoopEnd
    \/ WaitReturn
    \/ Summarize
    \/ \E t \in Tasks : Acquire(t)
    \/ \E t \in Tasks : ConvertFile(t)
    \/ \E t \in Tasks : Release(t)
    \/ \E t \in Tasks : Done(t)

Spec == Init /\ [][Next]_vars

\* The Go scheduler runs every goroutine that stays runnable: ConvertAll's own
\* goroutine and each task's.  A task blocked on the channel send is runnable
\* once a token is free.
FairSpec ==
    /\ FairInit /\ [][Next]_vars
    /\ WF_vars(MainStep)
    /\ \A t \in 1..MaxFiles : WF_vars(TaskStep(t))

(* ------------------- file handles of concurrent tasks ------------------ *)

\* The handles one convertFile holds at once at most: the output file writer
\* and the re-opened input (the detection handle is closed before them).
HandlesPerFile == 2

\* Which files of the directory may fail; the others convert.
CanFail(t) == task[t].file.base \in flaky

\* A task's step inside convertFile: its new pc and handles, and, when
\* convertFile returns with the step, the result stored at line 99.
HandleStep(t, pc, h, e) ==
    /\ task' = [task EXCEPT ![t].pc = pc, ![t].h = h]
    /\ results' = IF pc = "stored"
                  THEN [results EXCEPT ![SlotOf(t)] =
                           convertFile(task[t].file, cfg, e).res]
                  ELSE results
    /\ UNCHANGED <<fileVars, foldVars, env, mainPc, files, loopIdx, ret,
                   warned, wg, sem>>

\* Lines 119-122 and 186-190: stat the input, then detectSchema opens it.
HDetectOpen(t) ==
    /\ task[t].pc = "conv"
    /\ \/ HandleStep(t, "sampling", {"det"}, AllOk)
       \/ CanFail(t) /\ HandleStep(t, "stored", {}, [AllOk EXCEPT !.stat = FALSE])
       \/ CanFail(t) /\ HandleStep(t, "stored", {}, [AllOk EXCEPT !.detect = FALSE])

\* Lines 196-238 with the deferred f.Close() of line 190: detectSchema
\* returns, with the header unread or with the schema.
HDetectReturn(t) ==
    /\ task[t].pc = "sampling"
    /\ \/ HandleStep(t, "write", {}, AllOk)
       \/ CanFail(t) /\ HandleStep(t, "stored", {}, [AllOk EXCEPT !.detect = FALSE])

\* Lines 145-150 and 315-325: make the output directory, create the file
\* writer and the JSON writer (whose failure closes the file writer).
HCreateWriter(t) ==
    /\ task[t].pc = "write"
    /\ \/ HandleStep(t, "reopen", {"fw"}, AllOk)
       \/ CanFail(t) /\ HandleStep(t, "stored", {}, [AllOk EXCEPT !.mkdir = FALSE])
       \/ CanFail(t) /\ HandleStep(t, "stored", {}, [AllOk EXCEPT !.write = FALSE])

\* Lines 328-334: re-open the input; on failure pw.WriteStop(), fw.Close().
HReopenLeaksWriter(t) ==
    /\ task[t].pc = "reopen"
    /\ \/ HandleStep(t, "stream", {"fw", "f"}, AllOk)
       \/ CanFail(t) /\ HandleStep(t, "stored", {"fw"}, [AllOk EXCEPT !.write = FALSE])
HReopen(t) ==
    /\ task[t].pc = "reopen"
    /\ \/ HandleStep(t, "stream", {"fw", "f"}, AllOk)
       \/ CanFail(t) /\ HandleStep(t, "stored", {}, [AllOk EXCEPT !.write = FALSE])

\* Lines 341-377 and 161-182: the header is skipped or not, the rows are
\* streamed, the writer is finalized or not; fw.Close() and the deferred
\* f.Close() on each way out; then the verification and the deletion.
HFinish(t) ==
    /\ task[t].pc = "stream"
    /\ \/ HandleStep(t, "stored", {}, AllOk)
       \/ CanFail(t) /\ HandleStep(t, "stored", {}, [AllOk EXCEPT !.write = FALSE])
       \/ CanFail(t) /\ HandleStep(t, "stored", {}, [AllOk EXCEPT !.written = 0])

\* A directory of files, one of which may fail at any step.
HandleInit ==
    /\ cfg = [DeleteOriginal |-> TRUE, OutputDir |-> ""]
    /\ inputKind = "dir"
    /\ dirCount \in 1..MaxFiles
    /\ flaky = {"b"}
    /\ BatchStart

HandleNext ==
    \/ Resolve
    \/ Launch
    \/ LoopEnd
    \/ WaitReturn
    \/ Summarize
    \/ \E t \in Tasks : Acquire(t)
    \/ \E t \in Tasks : HDetectOpen(t)
    \/ \E t \in Tasks : HDetectReturn(t)
    \/ \E t \in Tasks : HCreateWriter(t)
    \/ \E t \in Tasks : HReopen(t)
    \/ \E t \in Tasks : HFinish(t)
    \/ \E t \in Tasks : Release(t)
    \/ \E t \in Tasks : Done(t)

HandleSpec == HandleInit /\ [][HandleNext]_vars

(* ------------------------- folding widenType -------------------------- *)

\* ConvertAll is not running.
BatchIdle ==
    /\ inputKind = "file"
    /\ dirCount = 0
    /\ flaky = {}
    /\ mainPc = "off"
    /\ files = <<>>
    /\ loopIdx = 1
    /\ results = <<>>
    /\ ret = <<>>
    /\ warned = FALSE
    /\ wg = 0
    /\ sem = 0
    /\ task = <<>>
    /\ summary = NoSummary

TypeSeqs(n) == UNION {[1..k -> FieldTypes] : k \in 0..n}

\* widenType's arguments: any working type, any inferred types to come.
FoldInit ==
    /\ cfg = [DeleteOriginal |-> TRUE, OutputDir |-> ""]
    /\ BatchIdle
    /\ FileIdle
    /\ start \in FieldTypes
    /\ acc = start
    /\ pending \in TypeSeqs(MaxTypes)
    /\ seen = <<>>

\* Line 234: types[i] = widenType(types[i], inferType(val)).
FoldStep ==
    /\ pending # <<>>
    /\ acc' = widenType(acc, Head(pending))
    /\ seen' = Append(seen, Head(pending))
    /\ pending' = Tail(pending)
    /\ UNCHANGED <<start, batchVars, fileVars>>

FoldSpec == FoldInit /\ [][FoldStep]_vars

(* ------------------------ detectSchema, stepwise ----------------------- *)

SeqsUpTo(S, n) == UNION {[1..k -> S] : k \in 0..n}

\* Cells of a one-column file: empty, blank, an integer, a float, two
\* boolean literals, a word, an integer after a space.
RichCells ==
    {Str0, <<" ">>, <<"1">>, <<"2", ".", "5">>, <<"t", "r", "u", "e">>,
     <<"F", "a", "l", "s", "e">>, <<"x">>, <<" ", "7">>}

OneColFiles ==
    {<<>>} \cup
    {<<<<h>>>> \o [i \in 1..Len(rows) |-> <<rows[i]>>] :
        h \in {<<"a">>, <<" ", "n", ".">>},
        rows \in SeqsUpTo(RichCells, MaxRows)}

\* Lines of a two-column file: full rows, short rows, a long row.
SmallCells == {Str0, <<"1">>, <<"t", "r", "u", "e">>}

TwoColLines ==
    {<<x, y>> : x \in SmallCells, y \in SmallCells}
        \cup {<<x>> : x \in SmallCells}
        \cup {<<<<"1">>, <<"1">>, <<"1">>>>}

TwoColFiles ==
    {<<<<<<"a">>, <<"b">>>>>> \o rows :
        rows \in SeqsUpTo(TwoColLines, MaxRows - 1)}

TheFile == [dir |-> "in", base |-> "a", ext |-> "csv"]

\* convertFile has stat'ed the file and is about to call detectSchema.
SchemaInit ==
    /\ cfg = [DeleteOriginal |-> TRUE, OutputDir |-> ""]
    /\ BatchIdle
    /\ FoldIdle
    /\ csv \in OneColFiles \cup TwoColFiles
    /\ sampleRows \in 1..MaxRows
    /\ o = OStat(OrchStart(TheFile), cfg, TRUE, Len(csv))
    /\ det = DetIdle
    /\ wp = WpIdle

\* Lines 186-194: os.Open(file) and the reader over it.
DetectOpen ==
    /\ o.pc = "DetectSchema"
    /\ det.pc = "idle"
    /\ \E ok \in BOOLEAN :
          IF ok
          THEN /\ det' = [det EXCEPT !.pc = "header", !.open = TRUE]
               /\ o' = o
          ELSE /\ det' = [det EXCEPT !.pc = "returned", !.err = "open"]
               /\ o' = ODetect(o, cfg, FALSE)
    /\ UNCHANGED <<batchVars, foldVars, csv, sampleRows, wp>>

\* Lines 196-217: read and clean the headers, start every type at Int64.
DetectHeader ==
    /\ det.pc = "header"
    /\ LET r == csvRead(csv, det.pos, det.fpr)
       IN  IF r.kind # "rec"
           THEN /\ det' = [det EXCEPT !.pc = "returned", !.open = FALSE,
                                      !.pos = r.pos,
                                      !.err = "reading headers"]
                /\ o' = ODetect(o, cfg, FALSE)
           ELSE /\ det' = [det EXCEPT
                             !.pc = "sample", !.pos = r.pos, !.fpr = r.fpr,
                             !.row = 0,
                             !.headers = [i \in 1..Len(r.record) |->
                                            cleanHeader(r.record[i], i - 1)],
                             !.types = [i \in 1..Len(r.record) |-> typeInt64]]
                /\ o' = o
    /\ UNCHANGED <<batchVars, foldVars, csv, sampleRows, wp>>

\* Lines 219-236, one iteration of the sampling loop.
DetectSampleSkipsForFree ==
    /\ det.pc = "sample"
    /\ det.row < sampleRows
    /\ LET r == csvRead(csv, det.pos, det.fpr)
       IN  det' =
             CASE r.kind = "eof" -> [det EXCEPT !.pc = "break", !.pos = r.pos]
               [] r.kind = "err" -> [det EXCEPT !.pos = r.pos]
               [] OTHER ->
                    [det EXCEPT !.pos = r.pos, !.row = @ + 1,
                                !.types = sampleRecord(@, r.record),
                                !.sampled = Append(@, r.record)]
    /\ UNCHANGED <<batchVars, foldVars, csv, sampleRows, o, wp>>
DetectSample ==
    /\ det.pc = "sample"
    /\ det.row < sampleRows
    /\ LET r == csvRead(csv, det.pos, det.fpr)
       IN  det' =
             CASE r.kind = "eof" -> [det EXCEPT !.pc = "break", !.pos = r.pos]
               [] r.kind = "err" -> [det EXCEPT !.pos = r.pos, !.row = @ + 1]
               [] OTHER ->
                    [det EXCEPT !.pos = r.pos, !.row = @ + 1,
                                !.types = sampleRecord(@, r.record),
                                !.sampled = Append(@, r.record)]
    /\ UNCHANGED <<batchVars, foldVars, csv, sampleRows, o, wp>>

\* Lines 238 and 190: the loop is over; close the file and return.
DetectReturn ==
    /\ \/ det.pc = "break"
       \/ det.pc = "sample" /\ det.row >= sampleRows
    /\ det' = [det EXCEPT !.pc = "returned", !.open = FALSE]
    /\ o' = ODetect(o, cfg, TRUE)
    /\ UNCHANGED <<batchVars, foldVars, csv, sampleRows, wp>>

SchemaNext == DetectOpen \/ DetectHeader \/ DetectSample \/ DetectReturn

SchemaSpec == SchemaInit /\ [][SchemaNext]_vars

(* ------------------------ writeParquet, stepwise ----------------------- *)

\* Lines 315-318: local.NewLocalFileWriter(outFile) creates the output file.
WriteCreate ==
    /\ o.pc = "Write"
    /\ wp.pc = "idle"
    /\ \E ok \in BOOLEAN :
          IF ok
          THEN /\ wp' = [wp EXCEPT !.pc = "jsonwriter", !.fwOpen = TRUE]
               /\ o' = [o EXCEPT !.outExists = TRUE, !.outSize = 0]
          ELSE /\ wp' = [wp EXCEPT !.pc = "returned",
                                   !.err = "creating parquet writer"]
               /\ \E removed \in BOOLEAN : o' = OWrite(o, cfg, FALSE, 0, removed)
    /\ UNCHANGED <<batchVars, foldVars, csv, sampleRows, det>>

\* Lines 320-325: writer.NewJSONWriter(schema, fw, 4).
WriteJSONWriter ==
    /\ wp.pc = "jsonwriter"
    /\ \E ok \in BOOLEAN :
          IF ok
          THEN /\ wp' = [wp EXCEPT !.pc = "reopen", !.pwLive = TRUE]
               /\ o' = o
          ELSE /\ wp' = [wp EXCEPT !.pc = "returned", !.fwOpen = FALSE,
                                   !.err = "creating JSON writer"]
               /\ \E removed \in BOOLEAN : o' = OWrite(o, cfg, FALSE, 0, removed)
    /\ UNCHANGED <<batchVars, foldVars, csv, sampleRows, det>>

\* Lines 328-338: os.Open(inputFile) again.  The file is read as it is now:
\* as detectSchema read it, or emptied since.
WriteReopen ==
    /\ wp.pc = "reopen"
    /\ \E ok \in BOOLEAN :
          IF ok
          THEN /\ wp' = [wp EXCEPT !.pc = "skipheader", !.fOpen = TRUE,
                                   !.pos = 1, !.fpr = 0]
               /\ csv' \in {csv, <<>>}
               /\ o' = o
          ELSE /\ wp' = [wp EXCEPT !.pc = "returned", !.pwLive = FALSE,
                                   !.stops = @ + 1, !.fwOpen = FALSE,
                                   !.err = "open"]
               /\ csv' = csv
               /\ \E removed \in BOOLEAN : o' = OWrite(o, cfg, FALSE, 0, removed)
    /\ UNCHANGED <<batchVars, foldVars, sampleRows, det>>

\* Lines 341-345: skip the header.
WriteSkipHeader ==
    /\ wp.pc = "skipheader"
    /\ LET r == csvRead(csv, wp.pos, wp.fpr)
       IN  IF r.kind # "rec"
           THEN /\ wp' = [wp EXCEPT !.pc = "returned", !.pwLive = FALSE,
                                    !.stops = @ + 1, !.fwOpen = FALSE,
                                    !.fOpen = FALSE, !.pos = r.pos,
                                    !.err = "header"]
                /\ \E removed \in BOOLEAN : o' = OWrite(o, cfg, FALSE, 0, removed)
           ELSE /\ wp' = [wp EXCEPT !.pc = "stream", !.pos = r.pos,
                                    !.fpr = r.fpr]
                /\ o' = o
    /\ UNCHANGED <<batchVars, foldVars, csv, sampleRows, det>>

\* Lines 348-368, one iteration: read a record; at the end leave the loop; a
\* record that comes with an error is skipped; any other is encoded and
\* handed to pw.Write, which takes it or rejects it.
WriteRowBreaksOnBadRow ==
    /\ wp.pc = "stream"
    /\ LET r == csvRead(csv, wp.pos, wp.fpr)
       IN  CASE r.kind \in {"eof", "err"} ->
                  wp' = [wp EXCEPT !.pc = "stop", !.pos = r.pos]
             [] OTHER ->
                  \E accepted \in BOOLEAN :
                     wp' = [wp EXCEPT
                              !.pos = r.pos,
                              !.rowCount = IF accepted THEN @ + 1 ELSE @,
                              !.forwarded =
                                 Append(@, [line |-> r.pos - 1,
                                            json |-> recordToJSON(r.record,
                                                        det.headers, det.types),
                                            accepted |-> accepted])]
    /\ UNCHANGED <<batchVars, foldVars, csv, sampleRows, det, o>>
WriteRow ==
    /\ wp.pc = "stream"
    /\ LET r == csvRead(csv, wp.pos, wp.fpr)
       IN  CASE r.kind = "eof" ->
                  wp' = [wp EXCEPT !.pc = "stop", !.pos = r.pos]
             [] r.kind = "err" ->
                  wp' = [wp EXCEPT !.pos = r.pos]
             [] OTHER ->
                  \E accepted \in BOOLEAN :
                     wp' = [wp EXCEPT
                              !.pos = r.pos,
                              !.rowCount = IF accepted THEN @ + 1 ELSE @,
                              !.forwarded =
                                 Append(@, [line |-> r.pos - 1,
                                            json |-> recordToJSON(r.record,
                                                        det.headers, det.types),
                                            accepted |-> accepted])]
    /\ UNCHANGED <<batchVars, foldVars, csv, sampleRows, det, o>>

\* Lines 370-377: pw.WriteStop(), fw.Close(), the deferred f.Close().  After
\* a finalize that reported success the output has size 1 (or, the writer
\* having failed silently, size 0 or no file: -1).
WriteStop ==
    /\ wp.pc = "stop"
    /\ \E ok \in BOOLEAN, size \in {-1, 0, 1} :
          IF ok
          THEN /\ wp' = [wp EXCEPT !.pc = "returned", !.pwLive = FALSE,
                                   !.stops = @ + 1, !.fwOpen = FALSE,
                                   !.fOpen = FALSE]
               /\ o' = OWrite(o, cfg, TRUE, size, TRUE)
          ELSE /\ wp' = [wp EXCEPT !.pc = "returned", !.pwLive = FALSE,
                                   !.stops = @ + 1, !.fwOpen = FALSE,
                                   !.fOpen = FALSE,
                                   !.err = "finalizing parquet"]
               /\ \E removed \in BOOLEAN : o' = OWrite(o, cfg, FALSE, 0, removed)
    /\ UNCHANGED <<batchVars, foldVars, csv, sampleRows, det>>

(* ------------------------- convertFile, stepwise ----------------------- *)

\* Lines 119-125.
StatInput ==
    /\ o.pc = "StatInput"
    /\ \E ok \in BOOLEAN : o' = OStat(o, cfg, ok, Len(csv))
    /\ UNCHANGED <<batchVars, foldVars, csv, sampleRows, det, wp>>

\* Lines 145-150.
PrepareOutput ==
    /\ o.pc = "PrepareOutput"
    /\ \E ok \in BOOLEAN : o' = OMkdir(o, cfg, ok)
    /\ UNCHANGED <<batchVars, foldVars, csv, sampleRows, det, wp>>

\* Lines 161-166.
VerifyOutput ==
    /\ o.pc = "Verify"
    /\ o' = OVerify(o, cfg)
    /\ UNCHANGED <<batchVars, foldVars, csv, sampleRows, det, wp>>

\* Lines 169-175.
DeleteSource ==
    /\ o.pc = "Delete"
    /\ \E ok \in BOOLEAN : o' = ODelete(o, cfg, ok)
    /\ UNCHANGED <<batchVars, foldVars, csv, sampleRows, det, wp>>

\* Lines of an input file of two columns: a full row, a short row, a long
\* row, a row with an empty first cell, a blank line.
FileLines ==
    {<<<<"1">>, <<"t", "r", "u", "e">>>>, <<<<"1">>>>,
     <<<<"1">>, <<"1">>, <<"1">>>>, <<Str0, <<"2", ".", "5">>>>, BlankLine}

\* Header a,b and the rows (1,foo), (2,bar), (,baz).
ScenarioFile ==
    <<<<<<"a">>, <<"b">>>>,
      <<<<"1">>, <<"f", "o", "o">>>>,
      <<<<"2">>, <<"b", "a", "r">>>>,
      <<Str0, <<"b", "a", "z">>>>>>

FileInputs ==
    {<<>>, ScenarioFile} \cup
    {<<<<<<"a">>, <<"b">>>>>> \o rows :
        rows \in SeqsUpTo(FileLines, MaxRows - 1)}

\* convertFile is called on one file.
FileInit ==
    /\ cfg \in Configs
    /\ BatchIdle
    /\ FoldIdle
    /\ csv \in FileInputs
    /\ sampleRows \in {1, MaxRows}
    /\ o = OrchStart(TheFile)
    /\ det = DetIdle
    /\ wp = WpIdle

FileNext ==
    \/ StatInput
    \/ DetectOpen
    \/ DetectHeader
    \/ DetectSample
    \/ DetectReturn
    \/ PrepareOutput
    \/ WriteCreate
    \/ WriteJSONWriter
    \/ WriteReopen
    \/ WriteSkipHeader
    \/ WriteRow
    \/ WriteStop
    \/ VerifyOutput
    \/ DeleteSource

FileSpec == FileInit /\ [][FileNext]_vars

(* ------------------------------ claims --------------------------------- *)

Inside(t) == task[t].pc \in {"conv", "stored"}

Failed(t) ==
    /\ task[t].pc \in {"stored", "released", "done"}
    /\ results[t].Err # "nil"

BatchReturned == mainPc = "returned" /\ files # <<>>

\* C1: the sequence ConvertAll returns has one result per resolved file, the
\* i-th being the result of converting the i-th file, and the only slot a
\* step ever changes is the slot of the task that takes the step.
C1_OrderedResults ==
    /\ [](BatchReturned =>
            /\ Len(ret) = Len(files)
            /\ \A i \in 1..Len(files) : ret[i].InputFile = files[i])
    /\ [][\A i \in DOMAIN results :
             results'[i] # results[i] =>
                /\ task[i].pc = "conv"
                /\ task'[i].pc = "stored"
                /\ results'[i].InputFile = files[i]]_vars

\* C1 witness: a directory batch larger than the gate has returned, and a
\* later file finished before an earlier one did.
C1_Witness ==
    /\ Len(files) > 4
    /\ \E i, j \in DOMAIN task :
          i < j /\ task[j].pc = "done" /\ task[i].pc = "gate"

\* C2: at most 4 tasks are between acquiring the gate and releasing it.
C2_AtMostFourInside ==
    /\ Cardinality({t \in DOMAIN task : Inside(t)}) <= 4
    /\ sem = Cardinality({t \in DOMAIN task : Inside(t)})

\* C2 witness: four tasks are inside and a fifth waits at the gate.
C2_Witness ==
    /\ Cardinality({t \in DOMAIN task : Inside(t)}) = 4
    /\ \E t \in DOMAIN task : task[t].pc = "gate"

\* C3: ConvertAll has returned only when every task has stored its result and
\* finished, and under fair scheduling it does return.
C3_ReturnsAfterAll ==
    /\ [](BatchReturned =>
            \A t \in DOMAIN task :
               task[t].pc = "done" /\ ret[t] = results[t] /\ ret[t] # ZeroResult)
    /\ <>(mainPc = "returned")

\* C3 witness: a batch of more files than the gate admits has returned.
C3_Witness == BatchReturned /\ Len(files) > 4

JoinTable ==
    [a \in FieldTypes |-> [b \in FieldTypes |->
        CASE a = typeString \/ b = typeString -> typeString
          [] a = typeBool /\ b = typeBool -> typeBool
          [] a = typeBool \/ b = typeBool -> typeString
          [] a = typeFloat64 \/ b = typeFloat64 -> typeFloat64
          [] OTHER -> typeInt64]]

\* All orders of the sequence s.
Perms(s) ==
    LET n == Len(s)
        Bij == {f \in [1..n -> 1..n] : \A i, j \in 1..n : f[i] = f[j] => i = j}
    IN  {[i \in 1..n |-> s[f[i]]] : f \in Bij}

\* C9: every application of widenType gives the join table's entry, gives the
\* same with its arguments swapped, and gives a when both arguments are a.
C9_WidenIsTheJoin ==
    [][pending # <<>> =>
          LET new == Head(pending)
          IN  /\ acc' = JoinTable[acc][new]
              /\ acc' = widenType(new, acc)
              /\ (acc = new => acc' = acc)]_vars

\* C9 witness: Float64 met Int64, then Bool, and the column ended String.
C9_Witness ==
    /\ start = typeFloat64
    /\ seen = <<typeInt64, typeBool>>
    /\ acc = typeString

\* C10: from the working type Int64, the type reached by folding a sequence
\* of inferred types is the type every other order of that sequence gives,
\* and widenType is associative.
C10_OrderIndependent ==
    /\ \A a, b, c \in FieldTypes :
          widenType(widenType(a, b), c) = widenType(a, widenType(b, c))
    /\ start = typeInt64 =>
          \A p \in Perms(seen) : FoldWiden(typeInt64, p) = acc

\* C10 witness: three different types were folded from Int64.
C10_Witness ==
    /\ pending = <<>>
    /\ Len(seen) = 3
    /\ Cardinality({seen[i] : i \in 1..3}) = 3
    /\ start = typeInt64

\* The cells of column i in the sampled records that are not empty after
\* trimming.
Column(i) ==
    LET cells == [k \in 1..Len(det.sampled) |->
                    IF i <= Len(det.sampled[k]) THEN det.sampled[k][i] ELSE Str0]
        NonBlank(c) == TrimSpace(c) # Str0
    IN  SelectSeq(cells, NonBlank)

IsBoolLiteral(c) ==
    ToLower(TrimSpace(c)) \in {<<"t", "r", "u", "e">>, <<"f", "a", "l", "s", "e">>}

Detected == det.pc = "returned" /\ det.err = "nil"

\* C6: a column whose sampled non-empty cells are all boolean literals, at
\* least one, is detected as Bool and declared BOOLEAN.
C6_BoolColumnIsBool ==
    Detected =>
       \A i \in 1..Len(det.types) :
          (Column(i) # <<>> /\ \A k \in 1..Len(Column(i)) : IsBoolLiteral(Column(i)[k]))
             => /\ det.types[i] = typeBool
                /\ parquetTag(det.types[i]) = "type=BOOLEAN"

\* C7: the detected type of a column is the type detected from its sampled
\* cells with the cells that are empty after trimming removed.
C7_BlankCellsAreNoEvidence ==
    Detected =>
       \A i \in 1..Len(det.types) :
          det.types[i] =
             FoldWiden(typeInt64,
                       [k \in 1..Len(Column(i)) |-> inferType(Column(i)[k])])

\* C5: the source file is removed only when delete-original is configured,
\* writeParquet returned no error and the output exists with a non-zero
\* size; while the result carries an error or delete-original is off, the
\* source is there and its removal is never attempted; a removal that fails
\* leaves the result without an error.
C5_DeleteOnlyAfterVerifiedOutput ==
    [][ /\ (o.srcExists /\ ~o'.srcExists) =>
              /\ cfg.DeleteOriginal
              /\ wp.pc = "returned" /\ wp.err = "nil"
              /\ o.res.Err = "nil"
              /\ o.outExists /\ o.outSize > 0
        /\ (o'.res.Err # "nil" \/ ~cfg.DeleteOriginal) =>
              (o'.srcExists /\ ~o'.removeTried)
        /\ (o'.removeTried /\ o'.srcExists) => o'.res.Err = "nil" ]_vars

\* C5 witness: the removal was attempted after a verified write and failed.
C5_Witness ==
    /\ o.pc = "Done"
    /\ o.removeTried /\ o.srcExists
    /\ o.outExists /\ o.outSize > 0
    /\ wp.forwarded # <<>>
    /\ o.res.Err = "nil"

\* C8: when the streaming pass ends without an error, every data row with
\* fewer cells than the header was encoded, its missing trailing fields
\* left out, and handed to the writer.
C8_ShortRowIsForwarded ==
    (wp.pc = "returned" /\ wp.err = "nil") =>
       \A k \in 2..Len(csv) :
          (csv[k] # BlankLine /\ Len(csv[k]) < Len(det.headers)) =>
             \E j \in 1..Len(wp.forwarded) :
                /\ wp.forwarded[j].line = k
                /\ wp.forwarded[j].json =
                      recordToJSON(csv[k], det.headers, det.types)

\* C11: on a directory without a matching file ConvertAll launches no task,
\* warns and returns the empty sequence, and main counts no failed file and
\* does not take the failure exit.
C11_EmptyDirectoryIsNoFailure ==
    (inputKind = "dir" /\ dirCount = 0) =>
       /\ files = <<>> /\ task = <<>> /\ wg = 0 /\ sem = 0
       /\ mainPc = "returned" => (ret = <<>> /\ warned)
       /\ summary # NoSummary =>
             (summary.failed = 0 /\ summary.converted = 0 /\ summary.exit = 0)

\* C11 witness: main has summed up the run over an empty directory.
C11_Witness ==
    inputKind = "dir" /\ dirCount = 0 /\ warned /\ summary # NoSummary

\* C12: recordToJSON leaves out the field of a column for which the row has
\* no cell or a cell that trims to empty, and writes no null or zero in its
\* place (checked on every row handed to the writer and on each of its
\* prefixes); for header a,b and rows (1,foo), (2,bar), (,baz) sampled in
\* full, the schema is a:Int64, b:String, three rows are handed to the
\* writer and the third is encoded as field b alone.
C12_EmptyFieldsAreOmitted ==
    /\ \A j \in 1..Len(wp.forwarded) :
          LET rec == csv[wp.forwarded[j].line]
          IN  /\ wp.forwarded[j].json = recordToJSON(rec, det.headers, det.types)
              /\ \A n \in 0..Len(rec) :
                    LET short == SubSeq(rec, 1, n)
                        js == recordToJSON(short, det.headers, det.types)
                    IN  /\ \A f \in 1..Len(js) : js[f].kind # "null"
                        /\ \A i \in 1..Len(det.headers) :
                              (i > n \/ TrimSpace(short[i]) = Str0) =>
                                 \A f \in 1..Len(js) :
                                    js[f].name # det.headers[i]
    /\ (csv = ScenarioFile /\ sampleRows >= 3
          /\ wp.pc = "returned" /\ wp.err = "nil") =>
          /\ det.headers = <<<<"a">>, <<"b">>>>
          /\ det.types = <<typeInt64, typeString>>
          /\ Len(wp.forwarded) = 3
          /\ \A j \in 1..3 : wp.forwarded[j].line = j + 1
          /\ wp.forwarded[3].json =
                <<[name |-> <<"b">>, kind |-> "string",
                   value |-> <<"b", "a", "z">>]>>

\* C12 witness: the three rows of the scenario went through the stream.
C12_Witness ==
    /\ csv = ScenarioFile /\ sampleRows >= 3
    /\ wp.pc = "returned" /\ wp.err = "nil"
    /\ Len(wp.forwarded) = 3

\* C13 as stated: once writeParquet has failed, the output file is gone,
\* the result carries the error, and neither the verification nor the
\* deletion of the source has taken place.
C13_FailedWriteLeavesNoOutput ==
    (wp.pc = "returned" /\ wp.err # "nil") =>
       /\ ~o.outExists
       /\ o.pc = "Done" /\ o.res.Err = "writing parquet"
       /\ o.res.OutputSize = 0 /\ ~o.removeTried /\ o.srcExists

\* C13 amended: once writeParquet has failed, the removal of the output file
\* has been attempted and the file is gone unless that removal failed; the
\* result carries the error, and neither the verification nor the deletion
\* of the source has taken place.
C13_FailedWriteIsCleanedUp ==
    (wp.pc = "returned" /\ wp.err # "nil") =>
       /\ o.cleanup # "none"
       /\ o.outExists => o.cleanup = "failed"
       /\ o.pc = "Done" /\ o.res.Err = "writing parquet"
       /\ o.res.OutputSize = 0 /\ ~o.removeTried /\ o.srcExists

\* C13 witness: the finalize failed and the partial output was removed.
C13_Witness ==
    /\ wp.err = "finalizing parquet"
    /\ o.pc = "Done" /\ o.cleanup = "removed" /\ ~o.outExists
    /\ wp.forwarded # <<>>

\* C14: when the stat of the input or detectSchema fails, convertFile is
\* done with an error in its result, and the output directory was not made,
\* no output file exists, writeParquet was not called and nothing was
\* removed.
C14_EarlyFailureTouchesNoOutput ==
    /\ (det.pc = "returned" /\ det.err # "nil") =>
          o.res.Err = "detecting schema"
    /\ o.res.Err \in {"stat", "detecting schema"} =>
          /\ o.pc = "Done"
          /\ ~o.dirMade /\ ~o.outExists /\ o.outSize = 0
          /\ wp = WpIdle
          /\ o.cleanup = "none" /\ ~o.removeTried /\ o.srcExists

\* C14 witness: the header could not be read while an output directory is
\* configured.
C14_Witness ==
    /\ det.err = "reading headers"
    /\ o.pc = "Done" /\ o.res.Err = "detecting schema"
    /\ cfg.OutputDir # ""

\* C15: a finished conversion whose write reported success has the error
\* "output verification failed" if the output is missing or empty; a result
\* without error has an output file that exists and OutputSize > 0; a
\* result with an error has OutputSize = 0.
C15_VerifiedOutputOrError ==
    o.pc = "Done" =>
       /\ (wp.pc = "returned" /\ wp.err = "nil"
             /\ (~o.outExists \/ o.outSize = 0)) =>
             o.res.Err = "output verification failed"
       /\ o.res.Err = "nil" =>
             (o.outExists /\ o.res.OutputSize = o.outSize /\ o.res.OutputSize > 0)
       /\ o.res.Err # "nil" => o.res.OutputSize = 0

\* C15 witness: the write reported success and left an empty file.
C15_Witness ==
    /\ o.pc = "Done" /\ wp.pc = "returned" /\ wp.err = "nil"
    /\ o.outExists /\ o.outSize = 0
    /\ o.res.Err = "output verification failed"

\* The file handles open across all tasks.
RECURSIVE OpenHandlesUpTo(_)
OpenHandlesUpTo(n) ==
    IF n = 0 THEN 0 ELSE Cardinality(task[n].h) + OpenHandlesUpTo(n - 1)

OpenHandles == OpenHandlesUpTo(Len(task))

\* C16: a task that has left convertFile (or detectSchema, on its way to
\* writeParquet) holds no open file handle, whichever way it left; a task
\* holds at most HandlesPerFile handles at once, and the handles open across
\* all tasks never exceed 4 x HandlesPerFile.
C16_HandlesClosedAndBounded ==
    /\ \A t \in DOMAIN task :
          /\ task[t].pc \notin {"sampling", "reopen", "stream"} => task[t].h = {}
          /\ Cardinality(task[t].h) <= HandlesPerFile
    /\ OpenHandles <= 4 * HandlesPerFile

\* C16 witness: four tasks stream at once, each with two handles open, while
\* a file that failed has ended with none.
C16_Witness ==
    /\ OpenHandles = 4 * HandlesPerFile
    /\ \E t \in DOMAIN task :
          task[t].pc \in {"stored", "released", "done"}
             /\ results[t].Err # "nil"

\* The lines of the file that hold a record: all but the blank ones.
RecordLines == SelectSeq([k \in 1..Len(csv) |-> k], LAMBDA k : csv[k] # BlankLine)

\* The data records with as many fields as the header, in file order.
WellFormedLines ==
    IF RecordLines = <<>> THEN <<>>
    ELSE SelectSeq(Tail(RecordLines),
                   LAMBDA k : Len(csv[k]) = Len(csv[Head(RecordLines)]))

ForwardedLines == [j \in 1..Len(wp.forwarded) |-> wp.forwarded[j].line]

AcceptedRows ==
    Len(SelectSeq(wp.forwarded, LAMBDA f : f.accepted))

\* C17: the stream skips the header and then hands every well-formed data
\* row, encoded, to the writer once and in file order, skipping the rows
\* that are malformed and not counting those the writer rejects; a step of
\* the row loop never ends writeParquet with an error; the writer is
\* finalized once, after the loop, and never before.
C17_StreamSkipsAndForwards ==
    /\ [](wp.pc = "stream" =>
            ForwardedLines =
               SelectSeq(WellFormedLines, LAMBDA k : k < wp.pos))
    /\ []((wp.pc \in {"stop", "returned"}
             /\ wp.err \in {"nil", "finalizing parquet"}) =>
            /\ ForwardedLines = WellFormedLines
            /\ \A j \in 1..Len(wp.forwarded) :
                  wp.forwarded[j].json =
                     recordToJSON(csv[wp.forwarded[j].line],
                                  det.headers, det.types)
            /\ wp.rowCount = AcceptedRows)
    /\ [](/\ wp.stops <= 1
          /\ wp.pc \in {"stream", "stop"} => wp.stops = 0
          /\ (wp.pc = "returned"
                /\ wp.err \in {"nil", "finalizing parquet"}) => wp.stops = 1)
    /\ [][wp.pc = "stream" =>
             /\ wp'.pc \in {"stream", "stop"}
             /\ wp'.err = "nil"
             /\ o' = o]_vars

\* C17 witness: the stream ended after a malformed row was skipped, a later
\* row was handed over, and the writer rejected a row.
C17_Witness ==
    /\ wp.pc = "returned" /\ wp.err = "nil" /\ wp.stops = 1
    /\ \E k \in 2..Len(csv), j \in 1..Len(wp.forwarded) :
          /\ Len(csv[k]) = 1 /\ csv[k] # BlankLine
          /\ wp.forwarded[j].line > k
    /\ \E j \in 1..Len(wp.forwarded) : ~wp.forwarded[j].accepted

\* The data records the sampling loop reads: the first sampleRows of them.
AttemptLines ==
    IF RecordLines = <<>> THEN <<>>
    ELSE LET data == Tail(RecordLines)
         IN  SubSeq(data, 1, IF Len(data) < sampleRows THEN Len(data)
                             ELSE sampleRows)

\* Those of them that are well formed.
EvidenceLines ==
    SelectSeq(AttemptLines, LAMBDA k : Len(csv[k]) = Len(csv[Head(RecordLines)]))

\* The types n columns get from the given lines, in that order.
RECURSIVE TypesFrom(_, _)
TypesFrom(n, ls) ==
    IF ls = <<>> THEN [i \in 1..n |-> typeInt64]
    ELSE sampleRecord(TypesFrom(n, SubSeq(ls, 1, Len(ls) - 1)),
                      csv[ls[Len(ls)]])

\* C18: the sampling loop makes at most sampleRows read attempts; when
\* detectSchema returns it has made one attempt per data record up to
\* sampleRows (fewer only at the end of the input), and the types are those
\* of the well-formed records among the attempted ones: a malformed record
\* uses up its attempt and gives no evidence, and no record past the
\* attempts has any influence.
C18_SampleBudgetCountsAttempts ==
    /\ det.row <= sampleRows
    /\ Detected =>
          /\ det.row = Len(AttemptLines)
          /\ det.sampled = [j \in 1..Len(EvidenceLines) |-> csv[EvidenceLines[j]]]
          /\ det.types = TypesFrom(Len(det.headers), EvidenceLines)

\* C18 witness: a malformed record used up an attempt, and a well-formed
\* record past the last attempt would have changed the types.
C18_Witness ==
    /\ Detected
    /\ Len(EvidenceLines) < Len(AttemptLines)
    /\ \E k \in 2..Len(csv) :
          /\ k > AttemptLines[Len(AttemptLines)]
          /\ Len(csv[k]) = Len(det.headers)
          /\ sampleRecord(det.types, csv[k]) # det.types

\* The widening order: Int64 below Float64 below String, Bool below String.
WidenUp ==
    {<<t, t>> : t \in FieldTypes}
       \cup {<<typeInt64, typeFloat64>>, <<typeInt64, typeString>>,
             <<typeFloat64, typeString>>, <<typeBool, typeString>>}

\* C19: the schema has one type per header column at every moment; a step
\* moves a column's working type up the widening order or leaves it; once
\* detectSchema has returned, no step (of the streaming pass or any other)
\* changes the headers or the types.
C19_TypesOnlyWidenThenFixed ==
    /\ [](Len(det.types) = Len(det.headers))
    /\ [][\A i \in DOMAIN det.types :
             /\ i \in DOMAIN det'.types
             /\ <<det.types[i], det'.types[i]>> \in WidenUp]_vars
    /\ [][det.pc = "returned" =>
             (det'.types = det.types /\ det'.headers = det.headers)]_vars
    /\ [](wp.pc # "idle" => det.pc = "returned")

\* C19 witness: a column was widened twice during sampling and the stream
\* has run to its end on the schema.
C19_Witness ==
    /\ wp.pc = "returned" /\ wp.err = "nil" /\ wp.forwarded # <<>>
    /\ Len(det.sampled) = 2
    /\ det.types = <<typeInt64, typeString>>
    /\ inferType(det.sampled[1][2]) = typeFloat64
    /\ inferType(det.sampled[2][2]) = typeBool

\* C20: the files of the resolved list have pairwise distinct output paths,
\* so two tasks inside convertFile at once never work on the same output
\* file, and no two results name the same output.
C20_DistinctOutputs ==
    /\ \A i, j \in DOMAIN files :
          i # j => outputPath(files[i], cfg) # outputPath(files[j], cfg)
    /\ \A t, u \in DOMAIN task :
          (t # u /\ Inside(t) /\ Inside(u)) =>
             outputPath(task[t].file, cfg) # outputPath(task[u].file, cfg)
    /\ \A t, u \in DOMAIN results :
          (t # u /\ results[t].OutputFile # NoPath) =>
             results[t].OutputFile # results[u].OutputFile

\* C20 witness: four tasks are inside convertFile at once, all writing into
\* the configured output directory.
C20_Witness ==
    /\ cfg.OutputDir # ""
    /\ Cardinality({t \in DOMAIN task : task[t].pc = "conv"}) = 4

====
